---- MODULE Spec2Model ----
(***************************************************************************)
(* Wallet / contract session layer of EducredChain (contractService.ts).   *)
(* Module-level state of the service, the wallet extension it talks to,    *)
(* and one action per exported operation or asynchronous continuation.     *)
(***************************************************************************)
EXTENDS Integers, Sequences, FiniteSets, Bags, TLC

(* ---------------------------------------------------------------------- *)
(* Bounds                                                                  *)
(* ---------------------------------------------------------------------- *)
\* eth_requestAccounts requests in flight at once
MaxPending == 2
\* unsubscribe functions handed out by onWalletChange and not yet called
MaxSubs == 2
\* mintCredential, getCredential and revokeCredential calls suspended at once
MaxCalls == 2
\* the largest balance that balanceOf reports
MaxBalance == 47
\* transactions that the chain accepts
MaxTx == 2
\* steps of the clock
MaxTicks == 2

(* ---------------------------------------------------------------------- *)
(* Values                                                                  *)
(* ---------------------------------------------------------------------- *)
NoAccount == "<null>"
NoObject == 0
NoContract == [id |-> 0, account |-> NoAccount, address |-> ""]

\* account strings the wallet may answer with (mixed and lower case)
Accounts == {"0xAa", "0xBb"}

toLowerCase(a) ==
    CASE a = "0xAa" -> "0xaa"
      [] a = "0xBb" -> "0xbb"
      [] OTHER -> a

\* listener callbacks that client code may register
Callbacks == {"L1", "L2"}

\* values of import.meta.env.VITE_CONTRACT_ADDRESS ("<unset>" = undefined)
EnvValues == {"<unset>", " ", "0xC0"}

trim(v) == IF v = " " THEN "" ELSE v

\* answers of eth_requestAccounts / payloads of accountsChanged
AccountLists == {<<>>} \cup {<<a>> : a \in Accounts}

NoCode == 0
UserRejected == 4001
RequestPending == -32002
InternalRpc == -32603
\* the three codes the catch block knows and one it does not
RejectCodes == {UserRejected, RequestPending, InternalRpc, -32000}

MsgNoWallet == "MetaMask is not installed. Please install MetaMask to continue."
MsgNoAccounts == "No accounts found. Please connect your wallet."
MsgNoAddress == "Contract address is not configured. Please set VITE_CONTRACT_ADDRESS in your .env file."
MsgDenied == "User denied account access"
MsgPending == "Request already pending. Please check your wallet."
MsgInternal == "Internal JSON-RPC error"
MsgInitFailed == "Failed to initialize contract"

NoError == [kind |-> "none", message |-> "", method |-> "", code |-> NoCode, cause |-> "none"]

ValidationError(msg) ==
    [kind |-> "ValidationError", message |-> msg, method |-> "", code |-> NoCode, cause |-> "none"]

\* new ContractError(message, method, details): the record keeps the message
\* argument, which the constructor puts after the prefix "Contract operation
\* failed (method): " that the method field determines; details kept as the
\* cause's message
ContractError(msg, method, details) ==
    [kind |-> "ContractError", message |-> msg, method |-> method, code |-> NoCode, cause |-> details]

\* the error a rejected wallet request carries
WalletError(code) ==
    [kind |-> "Error", message |-> "wallet request failed", method |-> "", code |-> code, cause |-> "none"]

\* utils/errors.toAppError: application errors pass through, other Errors keep
\* their message, anything else gets the default message
toAppError(error, defaultMessage) ==
    IF error.kind \in {"ValidationError", "ContractError", "AppError"} THEN error
    ELSE IF error.kind = "Error" THEN [error EXCEPT !.kind = "AppError"]
    ELSE [NoError EXCEPT !.kind = "AppError", !.message = defaultMessage]

(* ---------------------------------------------------------------------- *)
(* Credential operations: argument values and validators                   *)
(* ---------------------------------------------------------------------- *)
\* a JavaScript string, described by its head, the number of characters that
\* follow the head and the alphabet those characters are taken from
Text(head, body, alphabet) ==
    [head |-> head, body |-> body, alphabet |-> alphabet, type |-> "string"]

Undefined == [head |-> "", body |-> 0, alphabet |-> "none", type |-> "undefined"]

length(v) ==
    (CASE v.head \in {"0x", "Qm"} -> 2 [] v.head = "b" -> 1 [] OTHER -> 0) + v.body

\* "!value || typeof value !== 'string'"
Missing(v) == v.type # "string" \/ length(v) = 0

\* value.trim().length
trimmedLength(v) == IF v.alphabet = "blank" THEN 0 ELSE length(v)

\* ethers.utils.isAddress: "0x" and forty hexadecimal digits
isAddress(v) == v.head = "0x" /\ v.body = 40 /\ v.alphabet = "hex"

\* /^(Qm[1-9A-HJ-NP-Za-km-z]{44}|b[A-Za-z2-7]{58})$/
MatchesIpfsHash(v) ==
    \/ v.head = "Qm" /\ v.body = 44 /\ v.alphabet = "base58"
    \/ v.head = "b" /\ v.body = 58 /\ v.alphabet = "base32"

ValidAddress == Text("0x", 40, "hex")
\* the content hash of the service's own test ('QmTestHash')
QmTestHash == Text("Qm", 8, "base58")

\* address arguments: well-formed, one digit short, no address at all, empty, absent
AddressInputs ==
    {ValidAddress, Text("0x", 39, "hex"), Text("", 7, "text"), Text("", 0, "text"), Undefined}

\* title arguments: plain, at the length limit,
\* over it, blank, empty
StringInputs ==
    {Text("", 5, "text"), Text("", 500, "text"), Text("", 501, "text"),
     Text("", 3, "blank"), Text("", 0, "text")}

\* description, issuer and reason arguments: plain, empty
ShortInputs == {Text("", 5, "text"), Text("", 0, "text")}

\* content hash arguments: CIDv0, CIDv1, the test's short hash, a CIDv0 with a
\* character outside the alphabet, empty
HashInputs ==
    {Text("Qm", 44, "base58"), Text("b", 58, "base32"), QmTestHash,
     Text("Qm", 44, "text"), Text("", 0, "text")}

\* a JavaScript number: NaN, an infinity, or sign * (hi * 2^27 + lo), plus one
\* half when frac
Num(neg, hi, lo, frac) ==
    [kind |-> "finite", neg |-> neg, hi |-> hi, lo |-> lo, frac |-> frac]

NaN == [kind |-> "NaN", neg |-> FALSE, hi |-> 0, lo |-> 0, frac |-> FALSE]
Infinity == [kind |-> "Infinity", neg |-> FALSE, hi |-> 0, lo |-> 0, frac |-> FALSE]

\* Number.MAX_SAFE_INTEGER = 2^53 - 1 = (2^26 - 1) * 2^27 + (2^27 - 1)
MAX_SAFE_INTEGER == Num(FALSE, 67108863, 134217727, FALSE)

isInteger(n) == n.kind = "finite" /\ ~n.frac

IsZero(n) == n.kind = "finite" /\ n.hi = 0 /\ n.lo = 0 /\ ~n.frac

\* n < 0
Negative(n) == n.neg /\ ~IsZero(n)

\* a > b for two non-negative finite numbers
Greater(a, b) ==
    \/ a.hi > b.hi
    \/ a.hi = b.hi /\ a.lo > b.lo
    \/ a.hi = b.hi /\ a.lo = b.lo /\ a.frac /\ ~b.frac

\* token id arguments: 0, 1, -1, one and a half, the largest safe integer, the
\* next integer (2^53), NaN, Infinity
TokenIdInputs ==
    {Num(FALSE, 0, 0, FALSE), Num(FALSE, 0, 1, FALSE), Num(TRUE, 0, 1, FALSE),
     Num(FALSE, 0, 1, TRUE), MAX_SAFE_INTEGER, Num(FALSE, 67108864, 0, FALSE),
     NaN, Infinity}

Valid == [ok |-> TRUE, error |-> NoError]

Invalid(parts) == [ok |-> FALSE, error |-> ValidationError(parts)]

validateAddress(address, fieldName) ==
    IF Missing(address)
    THEN Invalid(<<fieldName, " is required and must be a string">>)
    ELSE IF ~isAddress(address)
    THEN Invalid(<<"Invalid ", fieldName, ": ", address>>)
    ELSE Valid

validateNonEmptyString(value, fieldName) ==
    IF Missing(value)
    THEN Invalid(<<fieldName, " is required and must be a string">>)
    ELSE IF trimmedLength(value) = 0
    THEN Invalid(<<fieldName, " cannot be empty">>)
    ELSE IF length(value) > 500
    THEN Invalid(<<fieldName, " cannot exceed 500 characters">>)
    ELSE Valid

\* slip: the upper limit is not tested
validateTokenId_NoUpperLimit(tokenId) ==
    IF ~isInteger(tokenId) \/ Negative(tokenId)
    THEN Invalid(<<"Token ID must be a non-negative integer">>)
    ELSE Valid

validateTokenId(tokenId) ==
    IF ~isInteger(tokenId) \/ Negative(tokenId)
    THEN Invalid(<<"Token ID must be a non-negative integer">>)
    ELSE IF Greater(tokenId, MAX_SAFE_INTEGER)
    THEN Invalid(<<"Token ID is too large">>)
    ELSE Valid

validateIpfsHash(ipfsHash) ==
    IF Missing(ipfsHash)
    THEN Invalid(<<"IPFS hash is required and must be a string">>)
    ELSE IF ~MatchesIpfsHash(ipfsHash)
    THEN Invalid(<<"Invalid IPFS hash format">>)
    ELSE Valid

\* the checks of an operation run in order; the first that fails throws
RECURSIVE FirstFailure(_)
FirstFailure(checks) ==
    IF checks = <<>> THEN Valid
    ELSE IF ~Head(checks).ok THEN Head(checks)
    ELSE FirstFailure(Tail(checks))

(* ---------------------------------------------------------------------- *)
(* State                                                                   *)
(* ---------------------------------------------------------------------- *)
VARIABLES
    ethereum,              \* TRUE iff window.ethereum is defined
    env,                   \* VITE_CONTRACT_ADDRESS
    contract,              \* module variable contract (NoContract = null)
    provider,              \* module variable provider (NoObject = null)
    signer,                \* module variable signer (NoObject = null)
    currentAccount,        \* module variable currentAccount (NoAccount = null)
    walletChangeListeners, \* module variable walletChangeListeners
    hooks,                 \* number of accountsChanged/chainChanged handler pairs attached to the wallet
    subs,                  \* bag of the unsubscribe functions returned by onWalletChange, not yet called
    pending,               \* bag of the initContract calls suspended at the eth_requestAccounts await
    last,                  \* what the last step did: operation, result, effects
    switched,              \* the account switch the wallet has settled on (NoSwitch = none)
    now,                   \* Date.now(), in milliseconds
    transactionStatuses,   \* module variable transactionStatuses: hash -> status record
    calls,                 \* mintCredential/getCredential/revokeCredential calls suspended at an await
    nextHash,              \* the hash the chain gives the next submitted transaction
    lookup,                \* the getTokensByOwner call in progress
    token,                 \* storage of the deployed EduCredToken contract
    result                 \* what the last credential operation step did

\* the variables of the session manager
sessionVars == <<ethereum, env, contract, provider, signer, currentAccount,
                 walletChangeListeners, hooks, subs, pending, last>>

\* the variables of the credential operations and the transaction tracker
serviceVars == <<now, transactionStatuses, calls, nextHash, lookup, token, result>>

vars == <<sessionVars, switched, serviceVars>>

\* the mutable module state an operation works on, with the effects of the step
Cur ==
    [contract |-> contract, provider |-> provider, signer |-> signer,
     currentAccount |-> currentAccount, listeners |-> walletChangeListeners,
     pending |-> pending,
     notes |-> <<>>, requested |-> 0,
     ok |-> TRUE, value |-> NoContract, error |-> NoError, settled |-> TRUE,
     rebuilt |-> FALSE, early |-> {}]

(* ---------------------------------------------------------------------- *)
(* Session manager: helpers                                                *)
(* ---------------------------------------------------------------------- *)
Range(seq) == {seq[k] : k \in 1..Len(seq)}

\* slip: the signing handle is left behind
clearContractState_KeepsSigner(w) ==
    [w EXCEPT !.contract = NoContract, !.currentAccount = NoAccount]

\* slip: the account is left behind
clearContractState_KeepsAccount(w) ==
    [w EXCEPT !.contract = NoContract, !.signer = NoObject]

clearContractState(w) ==
    [w EXCEPT !.contract = NoContract, !.signer = NoObject, !.currentAccount = NoAccount]

\* what one listener sees when it runs: the getters' answers at that moment
Observation(w, listener) ==
    [listener |-> listener, account |-> w.currentAccount,
     contract |-> w.contract, signer |-> w.signer]

notifyWalletChange(w) ==
    [w EXCEPT !.notes = @ \o [i \in 1..Len(w.listeners) |-> Observation(w, w.listeners[i])]]

getContractAddress(v) ==
    IF v = "<unset>" \/ trim(v) = ""
    THEN [ok |-> FALSE, address |-> "",
          error |-> ValidationError(MsgNoAddress)]
    ELSE [ok |-> TRUE, address |-> trim(v), error |-> NoError]

\* slip: the missing handle is handed out instead of failing
getContract_HandsOutNull(w) ==
    [ok |-> TRUE, value |-> w.contract, error |-> NoError]

getContract(w) ==
    IF w.contract = NoContract
    THEN [ok |-> FALSE, value |-> NoContract,
          error |-> ContractError("Contract not initialized. Call initContract() first.",
                                  "getContract", "none")]
    ELSE [ok |-> TRUE, value |-> w.contract, error |-> NoError]

getCurrentAccount(w) == w.currentAccount

isWalletConnected(w) == w.currentAccount # NoAccount

Return(w, c) == [w EXCEPT !.ok = TRUE, !.value = c, !.error = NoError, !.settled = TRUE]

Throw(w, e) == [w EXCEPT !.ok = FALSE, !.value = NoContract, !.error = e, !.settled = TRUE]

(* ---------------------------------------------------------------------- *)
(* initContract                                                            *)
(* ---------------------------------------------------------------------- *)
\* slip: the forceReconnect test is inverted
AlreadyInitialized_Inverted(w, forceReconnect) ==
    w.contract # NoContract /\ w.signer # NoObject /\ forceReconnect

\* the guard of the early return
AlreadyInitialized(w, forceReconnect) ==
    w.contract # NoContract /\ w.signer # NoObject /\ ~forceReconnect

\* slip: the pending-request code is not recognised
InitError_NoPendingCase(error) ==
    IF error.code = UserRejected
    THEN ContractError(MsgDenied, "initContract", "none")
    ELSE IF error.code = InternalRpc
    THEN ContractError(MsgInternal, "initContract", error.message)
    ELSE ContractError(toAppError(error, MsgInitFailed).message,
                       "initContract", error.message)

\* the error the catch block rethrows for a caught error
InitError(error) ==
    IF error.code = UserRejected
    THEN ContractError(MsgDenied, "initContract", "none")
    ELSE IF error.code = RequestPending
    THEN ContractError(MsgPending, "initContract", "none")
    ELSE IF error.code = InternalRpc
    THEN ContractError(MsgInternal, "initContract", error.message)
    ELSE ContractError(toAppError(error, MsgInitFailed).message,
                       "initContract", error.message)

\* the catch block
initCatch(w, error) == Throw(clearContractState(w), InitError(error))

\* from the call to the first await: early return, missing wallet, or the
\* eth_requestAccounts request is issued and the call suspends; early is the
\* set of listeners that handleAccountsChanged notifies while the call is pending
initContractCall(w, forceReconnect, early) ==
    IF AlreadyInitialized(w, forceReconnect) THEN Return(w, w.contract)
    ELSE IF ~ethereum
    THEN Throw(clearContractState(w),
               ValidationError(MsgNoWallet))
    ELSE [w EXCEPT !.pending = @ (+) SetToBag({[force |-> forceReconnect, early |-> early]}),
                   !.requested = @ + 1, !.settled = FALSE]

\* the identity of a newly constructed provider/signer/contract: one that no
\* module variable refers to
NewObject(w) ==
    CHOOSE n \in 1..3 :
        /\ n \notin {w.provider, w.signer, w.contract.id}
        /\ \A m \in 1..(n - 1) : m \in {w.provider, w.signer, w.contract.id}

\* slip: a handle that is already held is kept instead of being rebuilt
initRebuild_KeepsHandle(w, newAccount) ==
    LET n == NewObject(w)
        w1 == [w EXCEPT !.provider = n, !.signer = n,
                        !.currentAccount = newAccount]
        addr == getContractAddress(env)
    IN  IF ~addr.ok THEN initCatch(w1, addr.error)
        ELSE LET w2 == [w1 EXCEPT !.contract = IF @ # NoContract THEN @
                                                 ELSE [id |-> n, account |-> newAccount,
                                                       address |-> addr.address],
                                  !.rebuilt = TRUE]
             IN  notifyWalletChange(w2)

\* the body of "if (newAccount !== currentAccount || forceReconnect)"
initRebuild(w, newAccount) ==
    LET n == NewObject(w)
        w1 == [w EXCEPT !.provider = n, !.signer = n,
                        !.currentAccount = newAccount]
        addr == getContractAddress(env)
    IN  IF ~addr.ok THEN initCatch(w1, addr.error)
        ELSE LET w2 == [w1 EXCEPT !.contract = [id |-> n, account |-> newAccount,
                                                 address |-> addr.address],
                                  !.rebuilt = TRUE]
             IN  notifyWalletChange(w2)

\* the rest of the try block once the request has answered with accounts
initContractResume(w, call, accounts) ==
    IF Len(accounts) = 0
    THEN initCatch(clearContractState(w),
                   ValidationError(MsgNoAccounts))
    ELSE LET newAccount == toLowerCase(accounts[1])
             w1 == IF newAccount # w.currentAccount \/ call.force
                   THEN initRebuild(w, newAccount)
                   ELSE w
         IN  IF ~w1.ok THEN w1
             ELSE IF w1.contract = NoContract
             THEN initCatch(w1, ContractError(MsgInitFailed, "initContract", "none"))
             ELSE Return(w1, w1.contract)

(* ---------------------------------------------------------------------- *)
(* Wallet change notifier                                                  *)
(* ---------------------------------------------------------------------- *)
\* slip: the disconnect branch returns without notifying
handleAccountsChanged_SilentDisconnect(w, accounts) ==
    IF Len(accounts) = 0
    THEN clearContractState(w)
    ELSE IF toLowerCase(accounts[1]) # toLowerCase(w.currentAccount)
    THEN notifyWalletChange(initContractCall(w, TRUE, Range(w.listeners)))
    ELSE notifyWalletChange(w)

\* handleAccountsChanged, the closure attached to 'accountsChanged'; the
\* promise of initContract(true) is dropped (.catch(console.error))
handleAccountsChanged(w, accounts) ==
    IF Len(accounts) = 0
    THEN notifyWalletChange(clearContractState(w))
    ELSE IF toLowerCase(accounts[1]) # toLowerCase(w.currentAccount)
    THEN notifyWalletChange(initContractCall(w, TRUE, Range(w.listeners)))
    ELSE notifyWalletChange(w)

\* the wallet emits 'accountsChanged': every attached handler runs in turn
RECURSIVE EmitAccountsChanged(_, _, _)
EmitAccountsChanged(w, accounts, n) ==
    IF n = 0 THEN w
    ELSE EmitAccountsChanged(handleAccountsChanged(w, accounts), accounts, n - 1)

\* walletChangeListeners.filter(l => l !== listener)
RECURSIVE Without(_, _)
Without(ls, listener) ==
    IF ls = <<>> THEN <<>>
    ELSE IF Head(ls) = listener THEN Without(Tail(ls), listener)
    ELSE <<Head(ls)>> \o Without(Tail(ls), listener)

\* does this registration set up (and later tear down) the wallet hooks?
IsFirstListener(ls) ==
    Len(ls) = 1

\* the number of handler pairs left attached after the unsubscribe function u
\* has run: the first listener's function removes the pair it attached
HooksAfterUnsubscribe(hs, u) ==
    IF u.first /\ ethereum THEN hs - 1 ELSE hs

(* ---------------------------------------------------------------------- *)
(* Steps                                                                   *)
(* ---------------------------------------------------------------------- *)
\* the record of a step that no property looks into
Quiet ==
    [op |-> "other", force |-> FALSE, accounts |-> <<>>, code |-> NoCode,
     before |-> NoAccount,
     settled |-> TRUE, ok |-> TRUE, value |-> NoContract, error |-> NoError,
     requested |-> 0, notes |-> <<>>, rebuilt |-> FALSE, early |-> {}]

Step(op, force, accounts, code, w) ==
    [op |-> op, force |-> force, accounts |-> accounts, code |-> code,
     before |-> currentAccount,
     settled |-> w.settled, ok |-> w.ok, value |-> w.value, error |-> w.error,
     requested |-> w.requested, notes |-> w.notes,
     rebuilt |-> w.rebuilt, early |-> w.early]

Commit(w) ==
    /\ contract' = w.contract
    /\ provider' = w.provider
    /\ signer' = w.signer
    /\ currentAccount' = w.currentAccount
    /\ walletChangeListeners' = w.listeners
    /\ pending' = w.pending

\* no account switch is being followed
NoSwitch == [to |-> NoAccount, from |-> NoContract]

\* the getTokensByOwner call in progress, or the last one that ran: its
\* position, the balance read, the loop variable i, the lookups dispatched and
\* not yet answered, the answers of the current batch by index, the tokens
\* array, and the sizes of the batches dispatched so far
NoLookup ==
    [pc |-> "idle", owner |-> Undefined, balance |-> 0, i |-> 0,
     outstanding |-> {}, batch |-> <<>>, tokens |-> <<>>, sizes |-> <<>>]

\* the absence of a status record (Map.get gives undefined)
NoStatus ==
    [hash |-> 0, status |-> "none", confirmations |-> 0, gasUsed |-> "",
     error |-> "", timestamp |-> 0]

\* no receipt, credential or token list
NoValue == [kind |-> "none"]

\* the record of an operation step: what was called with which arguments, the
\* chain calls the step issued, how it ended, the status record that
\* trackTransaction holds for the call's transaction, and the hashes the step
\* deleted from the tracker
NoResult ==
    [op |-> "none", phase |-> "call", args |-> <<>>, chain |-> <<>>,
     settled |-> TRUE, ok |-> TRUE, error |-> NoError, value |-> NoValue,
     tracked |-> NoStatus, evicted |-> {}]

\* the account that deploys EduCredToken
Deployer == "0xaa"

\* the storage of EduCredToken after its constructor: Ownable's owner, the
\* token id counter, ERC721's owner of each token minted, and the credential
\* of each token minted
Deployed == [owner |-> Deployer, counter |-> 0, owners |-> <<>>, credentials |-> <<>>]

\* the tracker map, the clock, the operations and the contract right after
\* module load
ServiceInit ==
    /\ now = 0
    /\ transactionStatuses = <<>>
    /\ calls = EmptyBag
    /\ nextHash = 1
    /\ lookup = NoLookup
    /\ token = Deployed
    /\ result = NoResult

Init ==
    /\ ethereum \in BOOLEAN
    /\ env \in EnvValues
    /\ contract = NoContract
    /\ provider = NoObject
    /\ signer = NoObject
    /\ currentAccount = NoAccount
    /\ walletChangeListeners = <<>>
    /\ hooks = 0
    /\ subs = EmptyBag
    /\ pending = EmptyBag
    /\ last = Quiet
    /\ switched = NoSwitch
    /\ ServiceInit

\* client code calls initContract(forceReconnect)
InitContract(forceReconnect) ==
    LET w == initContractCall(Cur, forceReconnect, {})
    IN  /\ BagCardinality(w.pending) <= MaxPending
        /\ Commit(w)
        /\ last' = Step("initContract", forceReconnect, <<>>, NoCode, w)
        /\ UNCHANGED <<ethereum, env, hooks, subs, switched, serviceVars>>

\* the module state once the suspended call has run on with the answer
Resumed(call, accounts) ==
    LET w0 == [Cur EXCEPT !.pending = @ (-) SetToBag({call})]
        w1 == initContractResume(w0, call, accounts)
    IN  [w1 EXCEPT !.early = IF w1.rebuilt THEN call.early ELSE {}]

\* the wallet answers a pending eth_requestAccounts with an account list
RequestResolved(call, accounts) ==
    \E w \in {Resumed(call, accounts)} :
        /\ Commit(w)
        /\ last' = Step("requestResolved", call.force, accounts, NoCode, w)
        /\ UNCHANGED <<ethereum, env, hooks, subs, switched, serviceVars>>

\* the wallet rejects a pending eth_requestAccounts
RequestRejected(call, code) ==
    LET w0 == [Cur EXCEPT !.pending = @ (-) SetToBag({call})]
        w == initCatch(w0, WalletError(code))
    IN  /\ Commit(w)
        /\ last' = Step("requestRejected", call.force, <<>>, code, w)
        /\ UNCHANGED <<ethereum, env, hooks, subs, switched, serviceVars>>

\* client code calls onWalletChange(listener)
OnWalletChange(listener) ==
    LET ls == Append(walletChangeListeners, listener)
        first == IsFirstListener(ls)
    IN  /\ BagCardinality(subs) < MaxSubs
        /\ walletChangeListeners' = ls
        /\ hooks' = IF first /\ ethereum THEN hooks + 1 ELSE hooks
        /\ subs' = subs (+) SetToBag({[listener |-> listener, first |-> first]})
        /\ last' = Quiet
        /\ UNCHANGED <<ethereum, env, contract, provider, signer, currentAccount,
                       pending, switched, serviceVars>>

\* client code calls a function that onWalletChange returned
Unsubscribe(u) ==
    /\ subs' = subs (-) SetToBag({u})
    /\ hooks' = HooksAfterUnsubscribe(hooks, u)
    /\ walletChangeListeners' = Without(walletChangeListeners, u.listener)
    /\ last' = Quiet
    /\ UNCHANGED <<ethereum, env, contract, provider, signer, currentAccount,
                   pending, switched, serviceVars>>

\* the attached handlers run for an 'accountsChanged' event
Delivered(accounts) ==
    LET w1 == EmitAccountsChanged(Cur, accounts, hooks)
        w == [w1 EXCEPT !.settled = TRUE, !.ok = TRUE]
    IN  /\ ethereum
        /\ hooks > 0
        /\ BagCardinality(w.pending) <= MaxPending
        /\ Commit(w)
        /\ last' = Step("accountsChanged", FALSE, accounts, NoCode, w)
        /\ UNCHANGED <<ethereum, env, hooks, subs, serviceVars>>

\* the wallet emits 'accountsChanged'
AccountsChanged(accounts) ==
    /\ Delivered(accounts)
    /\ UNCHANGED switched

\* the wallet emits 'chainChanged': handleChainChanged reloads the page, the
\* module is loaded afresh
ChainChanged ==
    /\ ethereum
    /\ hooks > 0
    /\ contract' = NoContract
    /\ provider' = NoObject
    /\ signer' = NoObject
    /\ currentAccount' = NoAccount
    /\ walletChangeListeners' = <<>>
    /\ hooks' = 0
    /\ subs' = EmptyBag
    /\ pending' = EmptyBag
    /\ last' = Quiet
    /\ UNCHANGED <<ethereum, env, switched, serviceVars>>

Next ==
    \/ \E f \in BOOLEAN : InitContract(f)
    \/ \E call \in BagToSet(pending), a \in AccountLists : RequestResolved(call, a)
    \/ \E call \in BagToSet(pending), c \in RejectCodes : RequestRejected(call, c)
    \/ \E l \in Callbacks : OnWalletChange(l)
    \/ \E u \in BagToSet(subs) : Unsubscribe(u)
    \/ \E a \in AccountLists : AccountsChanged(a)
    \/ ChainChanged

Spec == Init /\ [][Next]_vars

(* ---------------------------------------------------------------------- *)
(* Properties                                                              *)
(* ---------------------------------------------------------------------- *)
Disconnected ==
    contract = NoContract /\ signer = NoObject /\ currentAccount = NoAccount

\* C1: from Connected (contract and signer both set), a call of init() without
\* forceReconnect returns the very contract handle that is held, issues no
\* eth_requestAccounts request, notifies no listener and changes no session
\* state; as this holds of every such call, it holds of any number in a row.
C1_InitIdempotent ==
    [][(contract # NoContract /\ signer # NoObject
        /\ last'.op = "initContract" /\ ~last'.force)
       => (/\ last'.settled /\ last'.ok
           /\ last'.value = contract
           /\ last'.requested = 0
           /\ last'.notes = <<>>
           /\ UNCHANGED <<contract, provider, signer, currentAccount,
                          walletChangeListeners, hooks, subs, pending>>)]_vars

\* C1 witness: init() on a connected session has returned the held handle
C1_Witness ==
    /\ last.op = "initContract" /\ ~last.force /\ last.ok /\ last.settled
    /\ contract # NoContract
    /\ last.value = contract
    /\ last.before = currentAccount

\* C2: in every state between asynchronous steps, and whenever a listener
\* runs, the contract handle is non-null iff the signing handle is non-null.
C2_HandlesTogether ==
    /\ (contract = NoContract) <=> (signer = NoObject)
    /\ \A k \in 1..Len(last.notes) :
          (last.notes[k].contract = NoContract) <=> (last.notes[k].signer = NoObject)

\* C2 witness: a forced reconnect of a connected session has failed
C2_Witness ==
    /\ last.op \in {"requestResolved", "requestRejected"} /\ last.force /\ ~last.ok
    /\ last.before # NoAccount
    /\ contract = NoContract /\ signer = NoObject

\* the three failures of init() that C3 names
InitFailedNoWallet == last.op = "initContract" /\ last.settled /\ ~last.ok
InitFailedNoAccounts == last.op = "requestResolved" /\ last.accounts = <<>>
InitFailedDeclined == last.op = "requestRejected" /\ last.code = UserRejected

\* C3 (as claimed): after init() fails for a missing wallet, zero accounts or
\* a declined prompt, connection, signing handle, contract handle and current
\* account are all null, also when a connected session was being reconnected.
C3_FailedInitResetsAll ==
    (InitFailedNoWallet \/ InitFailedNoAccounts \/ InitFailedDeclined)
    => (provider = NoObject /\ signer = NoObject
        /\ contract = NoContract /\ currentAccount = NoAccount)

\* C4 (as claimed): init() fails with a ValidationError both when the wallet
\* extension is absent and when the wallet answers with an empty account list.
C4_ValidationErrorForNoWalletNoAccounts ==
    (InitFailedNoWallet \/ InitFailedNoAccounts)
    => (~last.ok /\ last.error.kind = "ValidationError")

\* C5 (as claimed): with the contract address configuration absent, the init()
\* that reaches contract construction fails with a ValidationError.
C5_MissingConfigIsValidationError ==
    (/\ last.op = "requestResolved" /\ Len(last.accounts) > 0
     /\ (toLowerCase(last.accounts[1]) # last.before \/ last.force)
     /\ ~getContractAddress(env).ok)
    => (~last.ok /\ last.error.kind = "ValidationError")

\* C6: a rejected account-access request makes init() fail with a
\* ContractError of method initContract whose message is chosen by the error
\* code (4001 denied, -32002 pending, -32603 internal, anything else generic
\* and carrying the cause), and the session is Disconnected afterwards.
C6_RejectionMapping ==
    last.op = "requestRejected"
    => (/\ last.settled /\ ~last.ok
        /\ last.error.kind = "ContractError"
        /\ last.error.method = "initContract"
        /\ (last.code = UserRejected => last.error.message = MsgDenied)
        /\ (last.code = RequestPending => last.error.message = MsgPending)
        /\ (last.code = InternalRpc => last.error.message = MsgInternal)
        /\ (last.code \notin {UserRejected, RequestPending, InternalRpc}
              => /\ last.error.message \notin {MsgDenied, MsgPending, MsgInternal}
                 /\ last.error.cause = WalletError(last.code).message)
        /\ Disconnected
        /\ getContract(Cur).ok = FALSE)

\* C6 witness: a connected session whose forced reconnect was answered with
\* the pending-request code
C6_Witness ==
    /\ last.op = "requestRejected" /\ last.code = RequestPending
    /\ last.before # NoAccount
    /\ last.error.message = MsgPending
    /\ Disconnected

RECURSIVE Count(_, _)
Count(x, seq) ==
    IF seq = <<>> THEN 0
    ELSE (IF Head(seq) = x THEN 1 ELSE 0) + Count(x, Tail(seq))

InSeq(x, seq) == \E k \in 1..Len(seq) : seq[k] = x

\* C7 (as claimed): when a forced init rebuilds the handle for a switch of
\* account, every registered listener has been invoked exactly once for that
\* switch, also when the switch arrived as an accountsChanged event: it runs
\* once in the rebuild and was not already run by the event handler.
C7_OneNotificationPerSwitch ==
    (/\ last.op = "requestResolved" /\ last.force /\ last.rebuilt /\ last.ok
     /\ last.before # NoAccount
     /\ last.before # currentAccount)
    => \A c \in Callbacks :
          InSeq(c, walletChangeListeners)
          => /\ c \notin last.early
             /\ Count(c, [k \in 1..Len(last.notes) |-> last.notes[k].listener])
                   = Count(c, walletChangeListeners)

\* C8 (as claimed): a listener that runs because the wallet switched to a
\* different account sees the current account and the contract handle of the
\* newly selected account, never those of the previous one.
C8_NotifiedAfterRebuild ==
    (/\ last.before # NoAccount
     /\ \/ (last.op = "accountsChanged" /\ last.requested > 0)
        \/ (last.op = "requestResolved" /\ last.rebuilt
            /\ last.before # currentAccount))
    => \A k \in 1..Len(last.notes) :
          /\ last.notes[k].account = toLowerCase(last.accounts[1])
          /\ last.notes[k].contract.account = toLowerCase(last.accounts[1])

\* C9 (as claimed): with two listeners registered and the hooks attached,
\* calling either unsubscribe function (a step that consumes one of the two
\* functions and leaves one listener) leaves the hooks attached.
C9_HooksStayWhileListenersRemain ==
    [][(/\ Len(walletChangeListeners) = 2
        /\ walletChangeListeners[1] # walletChangeListeners[2]
        /\ BagCardinality(subs) = 2
        /\ hooks > 0
        /\ BagCardinality(subs') = 1
        /\ Len(walletChangeListeners') = 1)
       => hooks' = hooks]_vars

\* C10: an accountsChanged event delivered while the hooks are attached
\* invokes every registered listener; when its account list is empty the
\* listeners already see no account and no contract (isWalletConnected() is
\* false, getContract() fails), the session is cleared and no wallet request
\* is made.
C10_AccountsChangedNotifies ==
    last.op = "accountsChanged"
    => (/\ \A i \in 1..Len(walletChangeListeners) :
              \E k \in 1..Len(last.notes) :
                  last.notes[k].listener = walletChangeListeners[i]
        /\ (last.accounts = <<>>
            => (/\ Disconnected
                /\ ~isWalletConnected(Cur)
                /\ ~getContract(Cur).ok
                /\ last.requested = 0
                /\ \A k \in 1..Len(last.notes) :
                      /\ last.notes[k].account = NoAccount
                      /\ last.notes[k].contract = NoContract
                      /\ last.notes[k].signer = NoObject)))

\* C10 witness: a connected session with two listeners received an empty
\* account list
C10_Witness ==
    /\ last.op = "accountsChanged" /\ last.accounts = <<>>
    /\ last.before # NoAccount
    /\ Len(walletChangeListeners) = 2
    /\ Len(last.notes) >= 2
    /\ Disconnected

(* ---------------------------------------------------------------------- *)
(* An account switch followed to its end                                   *)
(* ---------------------------------------------------------------------- *)
\* the wallet switches a Connected session to another account: from here on
\* it answers every request with that account and emits no further event
SwitchAccount(b) ==
    /\ switched = NoSwitch
    /\ contract # NoContract /\ signer # NoObject /\ currentAccount # NoAccount
    /\ toLowerCase(b) # toLowerCase(currentAccount)
    /\ Delivered(<<b>>)
    /\ switched' = [to |-> b, from |-> contract]

\* the wallet grants the switched-to account to a pending request
Grant(call) ==
    /\ switched # NoSwitch
    /\ RequestResolved(call, <<switched.to>>)

\* a session that init() has connected to account a: the state after
\* initContract was granted a
Connected(a) ==
    /\ ethereum = TRUE
    /\ env = "0xC0"
    /\ contract = [id |-> 1, account |-> a, address |-> "0xC0"]
    /\ provider = 1
    /\ signer = 1
    /\ currentAccount = a
    /\ walletChangeListeners = <<>>
    /\ hooks = 0
    /\ subs = EmptyBag
    /\ pending = EmptyBag
    /\ last = Quiet

Init_Switch ==
    /\ \E a \in Accounts : Connected(toLowerCase(a))
    /\ switched = NoSwitch
    /\ ServiceInit

Next_Switch ==
    \/ \E f \in BOOLEAN : InitContract(f)
    \/ \E l \in Callbacks : OnWalletChange(l)
    \/ \E b \in Accounts : SwitchAccount(b)
    \/ \E call \in BagToSet(pending) : Grant(call)

\* the wallet answers the requests it was sent
Spec_Switch ==
    /\ Init_Switch
    /\ [][Next_Switch]_vars
    /\ WF_vars(\E call \in BagToSet(pending) : Grant(call))

\* the session follows the switch: Connected, for the lower-cased new account,
\* with a handle that is not the one held when the event arrived
Followed ==
    /\ switched # NoSwitch
    /\ currentAccount = toLowerCase(switched.to)
    /\ contract # NoContract /\ signer # NoObject
    /\ contract.account = toLowerCase(switched.to)
    /\ contract # switched.from

\* C11: when a Connected session with account A receives accountsChanged with
\* a first account B that differs from A ignoring case, a forced reconnection
\* is started, and, the wallet granting B and emitting no further event, the
\* session eventually is Connected with current account lowercase B and a
\* contract handle built anew for B.
C11_SwitchIsFollowed ==
    /\ [][(switched = NoSwitch /\ switched' # NoSwitch)
          => (/\ last'.requested > 0
              /\ \E call \in BagToSet(pending') : call.force)]_vars
    /\ (switched # NoSwitch) ~> Followed

\* C11 witness: the forced reconnection of a switch from one account to the
\* other was granted and the session follows
C11_Witness ==
    /\ Followed
    /\ last.op = "requestResolved" /\ last.force /\ last.rebuilt
    /\ switched.from.account # NoAccount
    /\ switched.from.account # currentAccount

(* ---------------------------------------------------------------------- *)
(* Credential operations: from the call to the first await                 *)
(* ---------------------------------------------------------------------- *)
\* the state an operation works on, with the effects of the step
Svc ==
    [contract |-> contract, statuses |-> transactionStatuses, calls |-> calls,
     nextHash |-> nextHash, lookup |-> lookup, now |-> now, token |-> token,
     chain |-> <<>>, settled |-> TRUE, ok |-> TRUE, error |-> NoError,
     value |-> NoValue, tracked |-> NoStatus, evicted |-> {}]

Fail(s, e) == [s EXCEPT !.settled = TRUE, !.ok = FALSE, !.error = e, !.value = NoValue]

Done(s, v) == [s EXCEPT !.settled = TRUE, !.ok = TRUE, !.error = NoError, !.value = v]

\* the operation calls a method of the contract handle and suspends on the
\* promise
Await(s, op, pc, method, args) ==
    [s EXCEPT !.chain = Append(@, [method |-> method, args |-> args]),
              !.calls = @ (+) SetToBag({[op |-> op, pc |-> pc, args |-> args,
                                         hash |-> 0, fate |-> "open",
                                         failure |-> NoError,
                                         status |-> NoStatus]}),
              !.settled = FALSE]

\* mintCredential up to "await contract.mintCredential(...)"
mintCredentialCall(s, to, title, description, issuer, ipfsHash) ==
    LET checks == FirstFailure(<<validateAddress(to, "Recipient address"),
                                 validateNonEmptyString(title, "Title"),
                                 validateNonEmptyString(description, "Description"),
                                 validateNonEmptyString(issuer, "Issuer"),
                                 validateIpfsHash(ipfsHash)>>)
        handle == getContract(s)
    IN  IF ~checks.ok THEN Fail(s, checks.error)
        ELSE IF ~handle.ok THEN Fail(s, handle.error)
        ELSE Await(s, "mintCredential", "submit", "mintCredential",
                   <<to, title, description, issuer, ipfsHash>>)

\* getCredential up to "await contract.getCredential(tokenId)"
getCredentialCall(s, tokenId) ==
    LET checks == validateTokenId(tokenId)
        handle == getContract(s)
    IN  IF ~checks.ok THEN Fail(s, checks.error)
        ELSE IF ~handle.ok THEN Fail(s, handle.error)
        ELSE Await(s, "getCredential", "read", "getCredential", <<tokenId>>)

\* revokeCredential up to "await contract.revokeCredential(tokenId, reason)"
revokeCredentialCall(s, tokenId, reason) ==
    LET checks == FirstFailure(<<validateTokenId(tokenId),
                                 validateNonEmptyString(reason, "Revocation reason")>>)
        handle == getContract(s)
    IN  IF ~checks.ok THEN Fail(s, checks.error)
        ELSE IF ~handle.ok THEN Fail(s, handle.error)
        ELSE Await(s, "revokeCredential", "submit", "revokeCredential",
                   <<tokenId, reason>>)

\* getTokensByOwner up to "await contract.balanceOf(owner)"
getTokensByOwnerCall(s, owner) ==
    LET checks == validateAddress(owner, "Owner address")
        handle == getContract(s)
    IN  IF ~checks.ok THEN Fail(s, checks.error)
        ELSE IF ~handle.ok THEN Fail(s, handle.error)
        ELSE [s EXCEPT !.chain = Append(@, [method |-> "balanceOf", args |-> <<owner>>]),
                       !.lookup = [NoLookup EXCEPT !.pc = "balance", !.owner = owner],
                       !.settled = FALSE]

\* the record of the step: phase "call" for the run from the call to the first
\* await, otherwise the await that the run resumes from and how it ended
\* ("resume" for getTokensByOwner; "submitted"/"rejected" for the contract
\* method, "confirmed"/"failed" for the wait inside trackTransaction,
\* "returned"/"thrown" for the wait after it)
Outcome(op, phase, args, s) ==
    [op |-> op, phase |-> phase, args |-> args, chain |-> s.chain,
     settled |-> s.settled, ok |-> s.ok, error |-> s.error, value |-> s.value,
     tracked |-> s.tracked, evicted |-> s.evicted]

\* the step's writes to the tracker and to the suspended calls, and what the
\* chain has written to the contract
Apply(s) ==
    /\ transactionStatuses' = s.statuses
    /\ calls' = s.calls
    /\ nextHash' = s.nextHash
    /\ lookup' = s.lookup
    /\ token' = s.token

(* ---------------------------------------------------------------------- *)
(* Credential operations called on a loaded or a connected session         *)
(* ---------------------------------------------------------------------- *)
\* client code calls getContract()
GetContract ==
    LET handle == getContract(Svc)
    IN  /\ result' = Outcome("getContract", "call", <<>>,
                             IF handle.ok THEN Done(Svc, [kind |-> "contract"])
                             ELSE Fail(Svc, handle.error))
        /\ UNCHANGED <<sessionVars, switched, now, transactionStatuses, calls,
                       nextHash, lookup, token>>

\* client code calls mintCredential(to, title, description, issuer, ipfsHash)
MintCredential(to, title, description, issuer, ipfsHash) ==
    \E s \in {mintCredentialCall(Svc, to, title, description, issuer, ipfsHash)} :
        /\ BagCardinality(s.calls) <= MaxCalls
        /\ Apply(s)
        /\ result' = Outcome("mintCredential", "call",
                             <<to, title, description, issuer, ipfsHash>>, s)
        /\ UNCHANGED <<sessionVars, switched, now>>

\* client code calls getCredential(tokenId)
GetCredential(tokenId) ==
    \E s \in {getCredentialCall(Svc, tokenId)} :
        /\ BagCardinality(s.calls) <= MaxCalls
        /\ Apply(s)
        /\ result' = Outcome("getCredential", "call", <<tokenId>>, s)
        /\ UNCHANGED <<sessionVars, switched, now>>

\* client code calls revokeCredential(tokenId, reason)
RevokeCredential(tokenId, reason) ==
    \E s \in {revokeCredentialCall(Svc, tokenId, reason)} :
        /\ BagCardinality(s.calls) <= MaxCalls
        /\ Apply(s)
        /\ result' = Outcome("revokeCredential", "call", <<tokenId, reason>>, s)
        /\ UNCHANGED <<sessionVars, switched, now>>

\* client code calls getTokensByOwner(owner) while no other such call runs
GetTokensByOwner(owner) ==
    \E s \in {getTokensByOwnerCall(Svc, owner)} :
        /\ lookup.pc = "idle"
        /\ Apply(s)
        /\ result' = Outcome("getTokensByOwner", "call", <<owner>>, s)
        /\ UNCHANGED <<sessionVars, switched, now>>

\* the session right after module load, with a wallet and a configured address
Loaded ==
    /\ ethereum = TRUE
    /\ env = "0xC0"
    /\ contract = NoContract
    /\ provider = NoObject
    /\ signer = NoObject
    /\ currentAccount = NoAccount
    /\ walletChangeListeners = <<>>
    /\ hooks = 0
    /\ subs = EmptyBag
    /\ pending = EmptyBag
    /\ last = Quiet

Init_Calls ==
    /\ Loaded \/ \E a \in Accounts : Connected(toLowerCase(a))
    /\ switched = NoSwitch
    /\ ServiceInit

\* no operation is suspended
Idle == calls = EmptyBag /\ lookup.pc = "idle"

\* the client makes one call at a time; the chain does not answer
Next_Calls ==
    \/ Idle /\ GetContract
    \/ Idle /\ \E to \in AddressInputs, title \in StringInputs,
                   description \in ShortInputs, issuer \in ShortInputs,
                   ipfsHash \in HashInputs :
                   MintCredential(to, title, description, issuer, ipfsHash)
    \/ Idle /\ \E tokenId \in TokenIdInputs : GetCredential(tokenId)
    \/ Idle /\ \E tokenId \in TokenIdInputs, reason \in ShortInputs :
                   RevokeCredential(tokenId, reason)
    \/ Idle /\ \E owner \in AddressInputs : GetTokensByOwner(owner)

Spec_Calls == Init_Calls /\ [][Next_Calls]_vars

(* ---------------------------------------------------------------------- *)
(* Properties of the calls                                                 *)
(* ---------------------------------------------------------------------- *)
\* arguments that the operations accept
ValidStrings == {Text("", 5, "text"), Text("", 500, "text")}
ValidHashes == {Text("Qm", 44, "base58"), Text("b", 58, "base32")}
\* the integers of [0, MAX_SAFE_INTEGER] among the token id arguments
ValidTokenIds == {Num(FALSE, 0, 0, FALSE), Num(FALSE, 0, 1, FALSE), MAX_SAFE_INTEGER}

ValidArguments(r) ==
    CASE r.op = "getContract" -> TRUE
      [] r.op = "mintCredential" ->
            /\ r.args[1] = ValidAddress
            /\ {r.args[2], r.args[3], r.args[4]} \subseteq ValidStrings
            /\ r.args[5] \in ValidHashes
      [] r.op = "getCredential" -> r.args[1] \in ValidTokenIds
      [] r.op = "revokeCredential" ->
            r.args[1] \in ValidTokenIds /\ r.args[2] \in ValidStrings
      [] r.op = "getTokensByOwner" -> r.args[1] = ValidAddress
      [] OTHER -> FALSE

\* C12: in the Disconnected state, getContract(), mintCredential,
\* getCredential, revokeCredential and getTokensByOwner called with valid
\* arguments each fail with a ContractError, issue no wallet or chain call,
\* start no connection attempt and leave session and tracker as they were.
C12_DisconnectedCallsFail ==
    [][(Disconnected /\ result'.phase = "call" /\ ValidArguments(result'))
       => (/\ result'.settled /\ ~result'.ok
           /\ result'.error.kind = "ContractError"
           /\ result'.chain = <<>>
           /\ UNCHANGED <<sessionVars, transactionStatuses, calls, lookup,
                          nextHash>>)]_vars

\* C12 witness: revokeCredential with valid arguments was called on a
\* disconnected session and failed with the ContractError of getContract
C12_Witness ==
    /\ Disconnected
    /\ result.op = "revokeCredential" /\ result.phase = "call"
    /\ ValidArguments(result)
    /\ ~result.ok /\ result.error.method = "getContract"

\* the invalid inputs C13 names: a malformed address for mintCredential or
\* getTokensByOwner, a token id outside the integers of [0, MAX_SAFE_INTEGER]
\* for getCredential or revokeCredential
InvalidInput(r) ==
    \/ r.op \in {"mintCredential", "getTokensByOwner"} /\ r.args[1] # ValidAddress
    \/ r.op \in {"getCredential", "revokeCredential"} /\ r.args[1] \notin ValidTokenIds

\* C13: with a malformed address (mintCredential, getTokensByOwner) or a token
\* id that is not an integer of [0, MAX_SAFE_INTEGER] (getCredential,
\* revokeCredential) the operation fails with a ValidationError, issues no
\* wallet or chain call and creates no tracker entry, Connected or not.
C13_InvalidInputFailsFirst ==
    [][(result'.phase = "call" /\ InvalidInput(result'))
       => (/\ result'.settled /\ ~result'.ok
           /\ result'.error.kind = "ValidationError"
           /\ result'.chain = <<>>
           /\ UNCHANGED <<transactionStatuses, calls, lookup, nextHash>>)]_vars

\* C13 witness: getCredential(2^53) on a connected session failed with a
\* ValidationError
C13_Witness ==
    /\ contract # NoContract
    /\ result.op = "getCredential" /\ result.phase = "call"
    /\ result.args = <<Num(FALSE, 67108864, 0, FALSE)>>
    /\ ~result.ok /\ result.error.kind = "ValidationError"
    /\ result.chain = <<>>

\* C20 (as claimed): on a Connected session, mintCredential with a valid
\* recipient, non-empty title, description and issuer and the short
\* 'Qm'-prefixed hash of the test ('QmTestHash') does not fail and calls the
\* contract's mintCredential exactly once with the five arguments unchanged.
C20_TestMintSucceeds ==
    (/\ contract # NoContract
     /\ result.op = "mintCredential" /\ result.phase = "call"
     /\ result.args[1] = ValidAddress
     /\ {result.args[2], result.args[3], result.args[4]} \subseteq ValidStrings
     /\ result.args[5] = QmTestHash)
    => (/\ result.ok
        /\ result.chain = <<[method |-> "mintCredential", args |-> result.args]>>)

(* ---------------------------------------------------------------------- *)
(* getTokensByOwner                                                        *)
(* ---------------------------------------------------------------------- *)
batchSize == 20

Min(a, b) == IF a < b THEN a ELSE b

\* Math.min(i + batchSize, balanceNum)
batchEnd(i, balanceNum) == Min(i + batchSize, balanceNum)

\* the token id the contract holds at index j of the owner's tokens
tokenOfOwnerByIndex(j) == ((j * 7) % 53) + 1

\* the inner loop: one tokenOfOwnerByIndex call per index of the batch
Dispatch(s, i) ==
    LET end == batchEnd(i, s.lookup.balance)
    IN  [s EXCEPT !.lookup.pc = "batch",
                  !.lookup.i = i,
                  !.lookup.outstanding = @ \cup (i..(end - 1)),
                  !.lookup.sizes = Append(@, end - i),
                  !.chain = @ \o [k \in 1..(end - i) |->
                                    [method |-> "tokenOfOwnerByIndex",
                                     args |-> <<s.lookup.owner, i + k - 1>>]],
                  !.settled = FALSE]

\* the loop header "i < balanceNum": another batch, or "return tokens"
Loop(s, i) ==
    IF i < s.lookup.balance THEN Dispatch(s, i)
    ELSE Done([s EXCEPT !.lookup.pc = "idle"],
              [kind |-> "tokens", tokens |-> s.lookup.tokens])

\* slip: the loop goes on as soon as one lookup of the batch has answered
BatchSettled_First(l) == TRUE

\* Promise.all(batchPromises) resolves when every lookup has answered
BatchSettled(l) == l.outstanding = {}

\* slip: the answers are taken from the highest index down
RECURSIVE InIndexOrder_Descending(_)
InIndexOrder_Descending(batch) ==
    IF DOMAIN batch = {} THEN <<>>
    ELSE LET j == CHOOSE x \in DOMAIN batch : \A y \in DOMAIN batch : x >= y
         IN  <<batch[j]>> \o InIndexOrder_Descending([y \in DOMAIN batch \ {j} |-> batch[y]])

\* the answers of the batch in the order of batchPromises
RECURSIVE InIndexOrder(_)
InIndexOrder(batch) ==
    IF DOMAIN batch = {} THEN <<>>
    ELSE LET j == CHOOSE x \in DOMAIN batch : \A y \in DOMAIN batch : x <= y
         IN  <<batch[j]>> \o InIndexOrder([y \in DOMAIN batch \ {j} |-> batch[y]])

\* the catch block of getTokensByOwner
tokensCatch(s, error) ==
    Fail([s EXCEPT !.lookup.pc = "idle"],
         ContractError(toAppError(error, "Failed to get tokens by owner").message,
                       "getTokensByOwner", error.message))

\* the error a rejected contract call carries
ChainError == [kind |-> "Error", message |-> "call failed", method |-> "",
               code |-> NoCode, cause |-> "none"]

\* balanceOf has answered n
balanceResolved(s, n) ==
    Loop([s EXCEPT !.lookup.balance = n], 0)

\* the lookup for index j has answered
lookupResolved(s, j) ==
    LET s1 == [s EXCEPT !.lookup.outstanding = @ \ {j},
                        !.lookup.batch = [y \in DOMAIN @ \cup {j} |->
                                            IF y = j THEN tokenOfOwnerByIndex(j)
                                            ELSE @[y]]]
    IN  IF BatchSettled(s1.lookup)
        THEN Loop([s1 EXCEPT !.lookup.tokens = @ \o InIndexOrder(s1.lookup.batch),
                             !.lookup.batch = <<>>],
                  s1.lookup.i + batchSize)
        ELSE [s1 EXCEPT !.settled = FALSE]

\* the chain answers balanceOf
BalanceResolved(n) ==
    \E s \in {balanceResolved(Svc, n)} :
        /\ lookup.pc = "balance"
        /\ Apply(s)
        /\ result' = Outcome("getTokensByOwner", "resume", <<lookup.owner>>, s)
        /\ UNCHANGED <<sessionVars, switched, now>>

\* the chain rejects balanceOf
BalanceRejected ==
    \E s \in {tokensCatch(Svc, ChainError)} :
        /\ lookup.pc = "balance"
        /\ Apply(s)
        /\ result' = Outcome("getTokensByOwner", "resume", <<lookup.owner>>, s)
        /\ UNCHANGED <<sessionVars, switched, now>>

\* the lookups the chain answers next: the outstanding one with the lowest or
\* with the highest index
Ends(outstanding) ==
    {j \in outstanding : (\A k \in outstanding : j <= k) \/ (\A k \in outstanding : j >= k)}

\* the chain answers the lookup for index j
LookupResolved(j) ==
    \E s \in {lookupResolved(Svc, j)} :
        /\ lookup.pc = "batch"
        /\ Apply(s)
        /\ result' = Outcome("getTokensByOwner", "resume", <<lookup.owner>>, s)
        /\ UNCHANGED <<sessionVars, switched, now>>

\* the chain rejects the lookup for index j: Promise.all rejects
LookupRejected(j) ==
    \E s \in {tokensCatch(Svc, ChainError)} :
        /\ lookup.pc = "batch"
        /\ Apply(s)
        /\ result' = Outcome("getTokensByOwner", "resume", <<lookup.owner>>, s)
        /\ UNCHANGED <<sessionVars, switched, now>>

Init_Tokens ==
    /\ \E a \in Accounts : Connected(toLowerCase(a))
    /\ switched = NoSwitch
    /\ ServiceInit

Next_Tokens ==
    \/ GetTokensByOwner(ValidAddress)
    \/ \E n \in 0..MaxBalance : BalanceResolved(n)
    \/ BalanceRejected
    \/ \E j \in Ends(lookup.outstanding) : LookupResolved(j)
    \/ \E j \in Ends(lookup.outstanding) : LookupRejected(j)

Spec_Tokens == Init_Tokens /\ [][Next_Tokens]_vars

(* ---------------------------------------------------------------------- *)
(* Properties of getTokensByOwner                                          *)
(* ---------------------------------------------------------------------- *)
\* getTokensByOwner has returned its token list
TokensReturned ==
    /\ result.op = "getTokensByOwner" /\ result.phase = "resume"
    /\ result.settled /\ result.ok

\* C14: for any reported balance n and any order in which the lookups of a
\* batch answer, getTokensByOwner returns exactly n token identifiers, the
\* i-th being the answer of the lookup for index i.
C14_TokensInIndexOrder ==
    TokensReturned
    => (/\ Len(result.value.tokens) = lookup.balance
        /\ \A i \in 0..(lookup.balance - 1) :
              result.value.tokens[i + 1] = tokenOfOwnerByIndex(i))

\* C14 witness: a balance of 21 was read and 21 tokens were returned
C14_Witness ==
    /\ TokensReturned
    /\ lookup.balance = batchSize + 1
    /\ Len(result.value.tokens) = batchSize + 1

\* C15: with reported balance n the lookups are dispatched in ceil(n/20)
\* batches over ascending index ranges (47 gives 20, 20, 7; 0 gives none); never
\* are more than 20 lookups outstanding, and while a batch is outstanding
\* every lookup of the batches before it has answered.
C15_BatchesOfTwenty ==
    LET n == lookup.balance
        start == batchSize * (Len(lookup.sizes) - 1)
    IN  /\ Cardinality(lookup.outstanding) <= batchSize
        /\ lookup.pc = "batch"
           => /\ \A j \in lookup.outstanding : start <= j /\ j < start + batchSize
              /\ Len(lookup.tokens) = start
        /\ TokensReturned
           => /\ Len(lookup.sizes) = (n + batchSize - 1) \div batchSize
              /\ \A k \in 1..Len(lookup.sizes) :
                    lookup.sizes[k] = Min(batchSize, n - batchSize * (k - 1))

\* C15 witness: a balance of 47 was read and the call has returned after
\* batches of 20, 20 and 7
C15_Witness ==
    /\ TokensReturned
    /\ lookup.balance = 47
    /\ lookup.sizes = <<20, 20, 7>>

(* ---------------------------------------------------------------------- *)
(* Transaction tracker, mintCredential and revokeCredential after submit   *)
(* ---------------------------------------------------------------------- *)
\* 60 * 60 * 1000
OneHour == 60 * 60 * 1000

\* the step of the clock: forty minutes
ClockStep == 40 * 60 * 1000

\* what a contract method or tx.wait() rejects with: Errors with a message,
\* or a thrown value that is not an Error
TxError(message) ==
    [kind |-> "Error", message |-> message, method |-> "", code |-> NoCode,
     cause |-> "none"]

ThrownValue ==
    [kind |-> "value", message |-> "", method |-> "", code |-> NoCode,
     cause |-> "none"]

MsgUserRejectedTx == "user rejected transaction"

\* the message of the rejection that the provider reports
MsgActionRejected == "user rejected transaction (action=sendTransaction, code=ACTION_REJECTED)"

SubmitErrors == {TxError(MsgActionRejected), TxError("insufficient funds")}

WaitErrors == {TxError("transaction failed"), ThrownValue}

\* error instanceof Error
instanceofError(error) == error.kind # "value"

\* the revert reasons of EduCredToken and of the contracts it inherits from
MsgNotOwner == "Ownable: caller is not the owner"
MsgNoToken == "Token does not exist"
MsgRevoked == "Credential is revoked"

\* the words of the messages and fragments that includes() is applied to; any
\* other text counts as one word
Words(text) ==
    CASE text = MsgUserRejectedTx -> <<"user", "rejected", "transaction">>
      [] text = MsgActionRejected ->
            <<"user", "rejected", "transaction", "(action=sendTransaction,",
              "code=ACTION_REJECTED)">>
      [] text = MsgNotOwner -> <<"Ownable:", "caller", "is", "not", "the", "owner">>
      [] text = "not owner" -> <<"not", "owner">>
      [] text = MsgNoToken -> <<"Token", "does", "not", "exist">>
      [] text = "invalid token ID" -> <<"invalid", "token", "ID">>
      [] text = "nonexistent token" -> <<"nonexistent", "token">>
      [] text = "Credential not found" -> <<"Credential", "not", "found">>
      [] text = "not found" -> <<"not", "found">>
      [] OTHER -> <<text>>

\* message.includes(fragment): the words of the fragment occur in the message,
\* in a row
includes(message, fragment) ==
    LET m == Words(message)
        f == Words(fragment)
    IN  \E k \in 0..(Len(m) - Len(f)) : SubSeq(m, k + 1, k + Len(f)) = f

\* the receipt of a mined transaction
Receipt(hash) ==
    [kind |-> "receipt", transactionHash |-> hash, confirmations |-> 1,
     gasUsed |-> "21000"]

\* transactionStatuses.set(hash, status)
MapSet(statuses, hash, status) ==
    [h \in DOMAIN statuses \cup {hash} |-> IF h = hash THEN status ELSE statuses[h]]

\* slip: the age limit is one minute
Expired_OneMinute(status, t) == status.timestamp < t - 60 * 1000

\* txStatus.timestamp < oneHourAgo
Expired(status, t) == status.timestamp < t - OneHour

\* the clean-up loop of trackTransaction
Sweep(statuses, t) ==
    [h \in {k \in DOMAIN statuses : ~Expired(statuses[k], t)} |-> statuses[h]]

\* the call c of the suspended calls goes on as c2
Moved(s, c, c2) == [s EXCEPT !.calls = (@ (-) SetToBag({c})) (+) SetToBag({c2})]

\* the call c of the suspended calls ends
Ended(s, c) == [s EXCEPT !.calls = @ (-) SetToBag({c})]

\* trackTransaction(tx) up to "await tx.wait()"
trackTransaction(s, c, hash) ==
    LET status == [hash |-> hash, status |-> "pending", confirmations |-> 0,
                   gasUsed |-> "", error |-> "", timestamp |-> s.now]
        s1 == [s EXCEPT !.statuses = MapSet(@, hash, status),
                        !.chain = Append(@, [method |-> "wait", args |-> <<hash>>]),
                        !.tracked = status,
                        !.settled = FALSE]
    IN  Moved(s1, c, [c EXCEPT !.pc = "track", !.hash = hash, !.status = status])

\* slip: the operation returns what trackTransaction returned
afterTracking_Returns(s, c, status, fate, failure) ==
    Done(Ended([s EXCEPT !.tracked = status], c), Receipt(c.hash))

\* trackTransaction has returned the status: the operation calls tx.wait()
afterTracking(s, c, status, fate, failure) ==
    LET s1 == [s EXCEPT !.chain = Append(@, [method |-> "wait", args |-> <<c.hash>>]),
                        !.tracked = status,
                        !.settled = FALSE]
    IN  Moved(s1, c, [c EXCEPT !.pc = "wait", !.status = status, !.fate = fate,
                               !.failure = failure])

\* the try block of trackTransaction after tx.wait() has resolved
trackConfirmed(s, c, receipt) ==
    LET status == [c.status EXCEPT !.status = "confirmed",
                                   !.confirmations = receipt.confirmations,
                                   !.gasUsed = receipt.gasUsed]
        set == MapSet(s.statuses, c.hash, status)
        swept == Sweep(set, s.now)
        s1 == [s EXCEPT !.statuses = swept,
                        !.evicted = DOMAIN set \ DOMAIN swept]
    IN  afterTracking(s1, c, status, "mined", NoError)

\* slip: the error field is not filled
trackFailed_NoMessage(s, c, error) ==
    LET status == [c.status EXCEPT !.status = "failed"]
        s1 == [s EXCEPT !.statuses = MapSet(@, c.hash, status)]
    IN  afterTracking(s1, c, status, "failed", error)

\* the catch block of trackTransaction
trackFailed(s, c, error) ==
    LET status == [c.status EXCEPT !.status = "failed",
                                   !.error = IF instanceofError(error)
                                             THEN error.message
                                             ELSE "Unknown error"]
        s1 == [s EXCEPT !.statuses = MapSet(@, c.hash, status)]
    IN  afterTracking(s1, c, status, "failed", error)

\* the catch block of mintCredential and of revokeCredential
operationCatch(s, c, error) ==
    LET appError == toAppError(error,
                               IF c.op = "mintCredential"
                               THEN "Failed to mint credential"
                               ELSE "Failed to revoke credential")
        s1 == Ended([s EXCEPT !.tracked = c.status], c)
    IN  IF c.op = "mintCredential" /\ includes(appError.message, MsgUserRejectedTx)
        THEN Fail(s1, ContractError("Transaction was rejected by user", c.op, "none"))
        ELSE IF c.op = "revokeCredential" /\ includes(appError.message, "not owner")
        THEN Fail(s1, ContractError("Only the credential owner can revoke it", c.op, "none"))
        ELSE Fail(s1, ContractError(appError.message, c.op, error.message))

\* slip: the returning operation files the transaction as pending again
operationReturn_FilesPending(s, c) ==
    LET again == [c.status EXCEPT !.status = "pending"]
    IN  Done(Ended([s EXCEPT !.statuses = MapSet(@, c.hash, again),
                             !.tracked = again], c),
             Receipt(c.hash))

\* "return receipt"
operationReturn(s, c) ==
    Done(Ended([s EXCEPT !.tracked = c.status], c), Receipt(c.hash))

\* transactionStatuses.get(hash) || null
getTransactionStatus(statuses, hash) ==
    IF hash \in DOMAIN statuses THEN statuses[hash] ELSE NoStatus

\* Array.from(values()).sort((a, b) => b.timestamp - a.timestamp); entries of
\* equal timestamp are taken in the order of their hashes
RECURSIVE getAllTransactions(_)
getAllTransactions(statuses) ==
    IF DOMAIN statuses = {} THEN <<>>
    ELSE LET h == CHOOSE x \in DOMAIN statuses :
                     \A y \in DOMAIN statuses :
                         \/ statuses[x].timestamp > statuses[y].timestamp
                         \/ statuses[x].timestamp = statuses[y].timestamp /\ x <= y
         IN  <<statuses[h]>>
             \o getAllTransactions([y \in DOMAIN statuses \ {h} |-> statuses[y]])

\* the contract method resolves with the transaction: the chain gives it the
\* next hash
TxSubmitted(c) ==
    \E s \in {trackTransaction([Svc EXCEPT !.nextHash = @ + 1], c, nextHash)} :
        /\ c.pc = "submit"
        /\ nextHash <= MaxTx
        /\ Apply(s)
        /\ result' = Outcome(c.op, "submitted", <<>>, s)
        /\ UNCHANGED <<sessionVars, switched, now>>

\* the contract method rejects
SubmitRejected(c, error) ==
    \E s \in {operationCatch(Svc, c, error)} :
        /\ c.pc = "submit"
        /\ Apply(s)
        /\ result' = Outcome(c.op, "rejected", <<>>, s)
        /\ UNCHANGED <<sessionVars, switched, now>>

\* tx.wait() of trackTransaction resolves
WaitResolved(c) ==
    \E s \in {trackConfirmed(Svc, c, Receipt(c.hash))} :
        /\ c.pc = "track"
        /\ Apply(s)
        /\ result' = Outcome(c.op, "confirmed", <<>>, s)
        /\ UNCHANGED <<sessionVars, switched, now>>

\* tx.wait() of trackTransaction rejects
WaitRejected(c, error) ==
    \E s \in {trackFailed(Svc, c, error)} :
        /\ c.pc = "track"
        /\ Apply(s)
        /\ result' = Outcome(c.op, "failed", <<>>, s)
        /\ UNCHANGED <<sessionVars, switched, now>>

\* tx.wait() of the operation resolves: the transaction was mined
WaitAgainResolved(c) ==
    \E s \in {operationReturn(Svc, c)} :
        /\ c.pc = "wait" /\ c.fate = "mined"
        /\ Apply(s)
        /\ result' = Outcome(c.op, "returned", <<>>, s)
        /\ UNCHANGED <<sessionVars, switched, now>>

\* tx.wait() of the operation rejects as the first one did
WaitAgainRejected(c) ==
    \E s \in {operationCatch(Svc, c, c.failure)} :
        /\ c.pc = "wait" /\ c.fate = "failed"
        /\ Apply(s)
        /\ result' = Outcome(c.op, "thrown", <<>>, s)
        /\ UNCHANGED <<sessionVars, switched, now>>

\* client code calls clearTransactionHistory()
ClearTransactionHistory ==
    /\ transactionStatuses' = <<>>
    /\ result' = Outcome("clearTransactionHistory", "call", <<>>, Svc)
    /\ UNCHANGED <<sessionVars, switched, now, calls, nextHash, lookup, token>>

\* time passes
Tick ==
    /\ now < MaxTicks * ClockStep
    /\ now' = now + ClockStep
    /\ UNCHANGED <<sessionVars, switched, transactionStatuses, calls, nextHash,
                   lookup, token, result>>

\* the title, description and issuer minted with
TestText == Text("", 5, "text")

\* the content hashes minted with: a CIDv0 and the short hash of the test
MintHashes == {Text("Qm", 44, "base58"), QmTestHash}

Init_Tracker ==
    /\ Loaded \/ Connected(toLowerCase("0xAa"))
    /\ switched = NoSwitch
    /\ ServiceInit

Next_Tracker ==
    \/ \E ipfsHash \in MintHashes :
          MintCredential(ValidAddress, TestText, TestText, TestText, ipfsHash)
    \/ \E c \in BagToSet(calls) : TxSubmitted(c)
    \/ \E c \in BagToSet(calls), error \in SubmitErrors : SubmitRejected(c, error)
    \/ \E c \in BagToSet(calls) : WaitResolved(c)
    \/ \E c \in BagToSet(calls), error \in WaitErrors : WaitRejected(c, error)
    \/ \E c \in BagToSet(calls) : WaitAgainResolved(c)
    \/ \E c \in BagToSet(calls) : WaitAgainRejected(c)
    \/ ClearTransactionHistory
    \/ Tick

Spec_Tracker == Init_Tracker /\ [][Next_Tracker]_vars

(* ---------------------------------------------------------------------- *)
(* Properties of the tracker and of mintCredential                         *)
(* ---------------------------------------------------------------------- *)
\* the status that getTransactionStatus(hash) shows ("none" for null)
Shown(hash) == getTransactionStatus(transactionStatuses, hash).status

\* the status record of hash: the one trackTransaction still holds, else the
\* one in the tracker
Held(hash) ==
    IF \E c \in BagToSet(calls) : c.hash = hash
    THEN (CHOOSE c \in BagToSet(calls) : c.hash = hash).status
    ELSE getTransactionStatus(transactionStatuses, hash)

\* C16: a tracked transaction whose finality wait fails moves from pending to
\* failed with a non-empty error field, the tracker showing that record, and
\* its record shows confirmed neither before nor after.
C16_FailedWaitMarksFailed ==
    [][\A h \in 1..MaxTx :
          /\ (result'.phase = "failed" /\ result'.tracked.hash = h /\ result' # result)
             => (/\ Held(h).status = "pending"
                 /\ Held(h)'.status = "failed"
                 /\ Held(h)'.error # ""
                 /\ getTransactionStatus(transactionStatuses', h) = Held(h)')
          /\ Held(h).status = "failed"
             => Held(h)'.status \in {"failed", "none"} /\ Shown(h)' \in {"failed", "none"}
          /\ Held(h)'.status = "failed"
             => Held(h).status \in {"pending", "failed"}]_vars

\* C16 witness: the wait of a tracked transaction threw a value that is not an
\* Error and the tracker shows the record failed
C16_Witness ==
    /\ result.phase = "failed"
    /\ result.tracked.error = "Unknown error"
    /\ Shown(result.tracked.hash) = "failed"

\* C17: for every transaction hash, whatever the interleaving of tracked
\* transactions, sweeps, clear and reads, the status shown for the hash (by
\* getTransactionStatus and by getAllTransactions) is monotonic: a status of
\* confirmed or failed stays as it is until the entry disappears, and a hash
\* comes to show pending only when the chain has just issued it, which happens
\* once per hash as the hashes issued only grow; so a hash that has shown
\* confirmed or failed never shows pending again, nor the other of the two.
C17_StatusMonotonic ==
    [][/\ \A h \in 1..MaxTx :
             /\ Shown(h) \in {"confirmed", "failed"} => Shown(h)' \in {Shown(h), "none"}
             /\ (Shown(h)' = "pending" /\ Shown(h) # "pending")
                => (Shown(h) = "none" /\ h = nextHash /\ nextHash' = h + 1)
             /\ Shown(h) # "none" => h < nextHash
       /\ nextHash' >= nextHash
       /\ LET all == getAllTransactions(transactionStatuses')
          IN  \A k \in 1..Len(all) :
                 all[k] = getTransactionStatus(transactionStatuses', all[k].hash)]_vars

\* C17 witness: one hash shows confirmed, another failed, after time has passed
C17_Witness ==
    /\ Shown(1) = "confirmed"
    /\ Shown(2) = "failed"
    /\ now > 0

\* C18: right after a tracked transaction is confirmed the tracker holds no
\* entry created more than one hour ago, whatever its status; the sweep of
\* that step removes no entry younger than one hour; a transaction that fails
\* finality removes nothing.
C18_SweepOnConfirmation ==
    [][/\ (result'.phase = "confirmed" /\ result' # result)
          => (/\ \A h \in DOMAIN transactionStatuses' :
                    ~(transactionStatuses'[h].timestamp < now' - OneHour)
              /\ \A h \in DOMAIN transactionStatuses \ DOMAIN transactionStatuses' :
                    transactionStatuses[h].timestamp <= now - OneHour
              /\ result'.evicted
                    = (DOMAIN transactionStatuses \cup {result'.tracked.hash})
                      \ DOMAIN transactionStatuses')
       /\ (result'.phase = "failed" /\ result' # result)
          => (/\ DOMAIN transactionStatuses \subseteq DOMAIN transactionStatuses'
              /\ result'.evicted = {})]_vars

\* C18 witness: a confirmation has evicted an entry created eighty minutes
\* before while an entry created forty minutes before stays
C18_Witness ==
    /\ result.phase = "confirmed"
    /\ \E h \in result.evicted : h # result.tracked.hash
    /\ \E h \in DOMAIN transactionStatuses :
          transactionStatuses[h].timestamp = now - ClockStep

C25_OneHookPair == hooks <= 1

\* C26: in every state that client code can observe, between steps and from
\* inside a listener, the current account is non-null exactly when the
\* contract handle is non-null (isWalletConnected() is true exactly when
\* getContract() succeeds), and a non-null current account is the lower-case
\* form of the first account that the wallet returned to the init that built
\* the handle.
C26_AccountIffHandle ==
    /\ isWalletConnected(Cur) <=> getContract(Cur).ok
    /\ (getCurrentAccount(Cur) # NoAccount) <=> (contract # NoContract)
    /\ \A k \in 1..Len(last.notes) :
          (last.notes[k].account # NoAccount) <=> (last.notes[k].contract # NoContract)
    /\ contract # NoContract => getCurrentAccount(Cur) = contract.account
    /\ (last.op = "requestResolved" /\ last.rebuilt /\ last.ok)
       => /\ getCurrentAccount(Cur) = toLowerCase(last.accounts[1])
          /\ last.value = contract

\* C26 witness: an init that the wallet answered with a mixed-case account has
\* built the handle, and a listener has run
C26_Witness ==
    /\ last.op = "requestResolved" /\ last.rebuilt /\ last.ok
    /\ last.accounts[1] = "0xBb"
    /\ currentAccount = "0xbb"
    /\ contract.account = "0xbb"
    /\ last.notes # <<>>

\* C27 (as claimed): when an init call that began on a disconnected session
\* fails while the session is Connected, another init having completed in the
\* meantime, and no call is left pending, the session stays as it was:
\* Connected, getContract() returning the handle that the other init returned.
C27_FailureSparesSession ==
    [][(/\ contract # NoContract /\ signer # NoObject
        /\ last'.op \in {"requestRejected", "requestResolved"}
        /\ ~last'.ok /\ ~last'.force
        /\ pending' = EmptyBag)
       => (/\ contract' = contract
           /\ signer' = signer
           /\ currentAccount' = currentAccount)]_vars

(* ---------------------------------------------------------------------- *)
(* Further properties of the tracker                                       *)
(* ---------------------------------------------------------------------- *)
\* C28 (as claimed): when trackTransaction confirms a transaction, whatever
\* the time between submission and confirmation, the tracker holds the record
\* of its hash right afterwards: getTransactionStatus(hash) gives the
\* confirmed record that trackTransaction returned.
C28_ConfirmedIsPresent ==
    [][(result'.phase = "confirmed" /\ result' # result)
       => (/\ result'.tracked.status = "confirmed"
           /\ getTransactionStatus(transactionStatuses', result'.tracked.hash)
                 = result'.tracked)]_vars

\* C29 (as claimed): once the tracker is empty, as clearTransactionHistory
\* leaves it, it gets an entry only by a newly submitted transaction being
\* tracked: the confirmation or failure of a transaction that was pending
\* when the tracker was cleared puts nothing back.
C29_ClearedStaysEmpty ==
    [][(DOMAIN transactionStatuses = {} /\ DOMAIN transactionStatuses' # {})
       => result'.phase = "submitted"]_vars


(* ---------------------------------------------------------------------- *)
(* The EduCredToken contract                                               *)
(* ---------------------------------------------------------------------- *)
\* the number of tokens minted, at most
MaxMinted == 2

\* the accounts that send transactions
Holders == {toLowerCase(a) : a \in Accounts}

\* address(0)
ZeroAddress == "0x00"

\* a call of the contract reverts with a reason and leaves the storage as it
\* was, or returns a value and leaves the storage t
Reverted(t, reason) == [ok |-> FALSE, reason |-> reason, value |-> NoValue, token |-> t]
Returned(t, v) == [ok |-> TRUE, reason |-> "", value |-> v, token |-> t]

\* function update of a mapping
Stored(mapping, key, v) ==
    [k \in DOMAIN mapping \cup {key} |-> IF k = key THEN v ELSE mapping[k]]

\* ERC721's _exists(tokenId)
Token_exists(t, tokenId) == tokenId \in DOMAIN t.owners

\* ERC721's ownerOf, address(0) for a token not minted
Token_ownerOf(t, tokenId) ==
    IF Token_exists(t, tokenId) THEN t.owners[tokenId] ELSE ZeroAddress

\* _credentials[tokenId].isRevoked, false for a token without credential
isRevoked(t, tokenId) ==
    tokenId \in DOMAIN t.credentials /\ t.credentials[tokenId].isRevoked

\* slip: every sender passes
onlyOwner_Anyone(t, sender) == TRUE

\* Ownable's modifier onlyOwner
onlyOwner(t, sender) == sender = t.owner

\* slip: revoked credentials move like the others
Token_update_MovesRevoked(t, to, tokenId, auth) ==
    IF auth # ZeroAddress /\ Token_ownerOf(t, tokenId) # auth
    THEN Reverted(t, "ERC721: caller is not token owner or approved")
    ELSE Returned([t EXCEPT !.owners = Stored(@, tokenId, to)],
                  Token_ownerOf(t, tokenId))

\* the override _update(to, tokenId, auth): no transfer of a revoked
\* credential; then ERC721's update, which checks the authorisation unless
\* auth is address(0), writes the owner and returns the previous one
Token_update(t, to, tokenId, auth) ==
    IF isRevoked(t, tokenId) THEN Reverted(t, MsgRevoked)
    ELSE IF auth # ZeroAddress /\ Token_ownerOf(t, tokenId) # auth
    THEN Reverted(t, "ERC721: caller is not token owner or approved")
    ELSE Returned([t EXCEPT !.owners = Stored(@, tokenId, to)],
                  Token_ownerOf(t, tokenId))

\* mintCredential(to, title, ..., issuer, ...) sent by sender
Token_mintCredential(t, sender, to, title, issuer) ==
    IF ~onlyOwner(t, sender) THEN Reverted(t, MsgNotOwner)
    ELSE IF to = ZeroAddress THEN Reverted(t, "ERC721: mint to the zero address")
    ELSE LET tokenId == t.counter
             minted == Token_update([t EXCEPT !.counter = @ + 1], to, tokenId,
                                    ZeroAddress)
         IN  IF ~minted.ok THEN Reverted(t, minted.reason)
             ELSE IF minted.value # ZeroAddress
             THEN Reverted(t, "ERC721: token already minted")
             ELSE Returned([minted.token EXCEPT
                               !.credentials =
                                   Stored(@, tokenId,
                                          [title |-> title, issuer |-> issuer,
                                           isRevoked |-> FALSE])],
                           [kind |-> "uint256", n |-> tokenId])

\* revokeCredential(tokenId, reason) sent by sender
Token_revokeCredential(t, sender, tokenId) ==
    IF ~onlyOwner(t, sender) THEN Reverted(t, MsgNotOwner)
    ELSE IF ~Token_exists(t, tokenId) THEN Reverted(t, MsgNoToken)
    ELSE Returned([t EXCEPT !.credentials[tokenId].isRevoked = TRUE], NoValue)

\* the view getCredential(tokenId)
Token_getCredential(t, tokenId) ==
    IF ~Token_exists(t, tokenId) THEN Reverted(t, MsgNoToken)
    ELSE Returned(t, t.credentials[tokenId])

\* ERC721's transferFrom(from, to, tokenId) sent by sender
Token_transferFrom(t, sender, from, to, tokenId) ==
    IF to = ZeroAddress THEN Reverted(t, "ERC721: transfer to the zero address")
    ELSE LET moved == Token_update(t, to, tokenId, sender)
         IN  IF ~moved.ok THEN Reverted(t, moved.reason)
             ELSE IF moved.value # from
             THEN Reverted(t, "ERC721: transfer from incorrect owner")
             ELSE Returned(moved.token, NoValue)

\* Ownable's transferOwnership(newOwner) sent by sender
Token_transferOwnership(t, sender, newOwner) ==
    IF ~onlyOwner(t, sender) THEN Reverted(t, MsgNotOwner)
    ELSE IF newOwner = ZeroAddress
    THEN Reverted(t, "Ownable: new owner is the zero address")
    ELSE Returned([t EXCEPT !.owner = newOwner], NoValue)

\* ERC721's balanceOf(account)
Token_balanceOf(t, account) ==
    Cardinality({k \in DOMAIN t.owners : t.owners[k] = account})

\* the external functions of EduCredToken: its own and those of ERC721 and
\* Ownable
Provided ==
    {"mintCredential", "revokeCredential", "getCredential",
     "balanceOf", "ownerOf", "approve", "getApproved", "setApprovalForAll",
     "isApprovedForAll", "transferFrom", "safeTransferFrom", "name", "symbol",
     "tokenURI", "supportsInterface",
     "owner", "renounceOwnership", "transferOwnership"}

\* a transaction sent to the contract while no call of the service is
\* suspended: what it did is recorded with its sender and arguments
Transaction(method, args, r) ==
    /\ Idle
    /\ token' = r.token
    /\ result' = [NoResult EXCEPT !.op = method, !.phase = "mined", !.args = args,
                                  !.ok = r.ok,
                                  !.error = IF r.ok THEN NoError
                                            ELSE TxError(r.reason),
                                  !.value = r.value]
    /\ UNCHANGED <<sessionVars, switched, now, transactionStatuses, calls,
                   nextHash, lookup>>

\* an account sends mintCredential
Mint(sender, to) ==
    /\ token.counter < MaxMinted
    /\ Transaction("EduCredToken.mintCredential", <<sender, to>>,
                   Token_mintCredential(token, sender, to, TestText, TestText))

\* an account sends revokeCredential
Revoke(sender, tokenId) ==
    Transaction("EduCredToken.revokeCredential", <<sender, tokenId>>,
                Token_revokeCredential(token, sender, tokenId))

\* an account sends transferFrom
TransferFrom(sender, from, to, tokenId) ==
    Transaction("EduCredToken.transferFrom", <<sender, from, to, tokenId>>,
                Token_transferFrom(token, sender, from, to, tokenId))

\* an account sends transferOwnership
TransferOwnership(sender, newOwner) ==
    Transaction("EduCredToken.transferOwnership", <<sender, newOwner>>,
                Token_transferOwnership(token, sender, newOwner))

(* ---------------------------------------------------------------------- *)
(* The service's calls answered by the contract                            *)
(* ---------------------------------------------------------------------- *)
\* the token ids the service is called with
ChainTokenIds == {Num(FALSE, 0, k, FALSE) : k \in 0..MaxMinted}

\* the uint256 the token id is encoded as
uint256(tokenId) == tokenId.hi * 134217728 + tokenId.lo

\* the account the address the service is called with names
AccountOf(address) == IF address = ValidAddress THEN "0xbb" ELSE ZeroAddress

\* the catch block of getCredential
getCredentialCatch(s, c, error) ==
    LET appError == toAppError(error, "Failed to get credential")
    IN  IF \/ includes(appError.message, "invalid token ID")
           \/ includes(appError.message, "nonexistent token")
        THEN Fail(Ended(s, c), ContractError("Credential not found", c.op, "none"))
        ELSE Fail(Ended(s, c), ContractError(appError.message, c.op, error.message))

\* the try block of getCredential after the contract has answered
getCredentialReturn(s, c, credential) ==
    IF length(credential.title) = 0 \/ length(credential.issuer) = 0
    THEN getCredentialCatch(s, c, ContractError("Credential not found", c.op, "none"))
    ELSE Done(Ended(s, c),
              [kind |-> "credential", title |-> credential.title,
               issuer |-> credential.issuer, isRevoked |-> credential.isRevoked])

\* the contract answers getCredential
CredentialAnswered(c) ==
    \E r \in {Token_getCredential(token, uint256(c.args[1]))} :
        \E s \in {IF r.ok THEN getCredentialReturn(Svc, c, r.value)
                  ELSE getCredentialCatch(Svc, c, TxError(r.reason))} :
            /\ c.pc = "read"
            /\ Apply(s)
            /\ result' = Outcome(c.op, "answered", c.args, s)
            /\ UNCHANGED <<sessionVars, switched, now>>

\* the contract answers revokeCredential sent by the connected account: the
\* transaction of a call that would revert is not sent, the other one gets the
\* next hash and its effect
RevokeAnswered(c) ==
    \E r \in {Token_revokeCredential(token, currentAccount, uint256(c.args[1]))} :
        \E s \in {IF r.ok
                  THEN trackTransaction([Svc EXCEPT !.nextHash = @ + 1,
                                                    !.token = r.token],
                                        c, nextHash)
                  ELSE operationCatch(Svc, c, TxError(r.reason))} :
            /\ c.pc = "submit" /\ c.op = "revokeCredential"
            /\ r.ok => nextHash <= MaxTx
            /\ Apply(s)
            /\ result' = Outcome(c.op, IF r.ok THEN "submitted" ELSE "rejected",
                                 c.args, s)
            /\ UNCHANGED <<sessionVars, switched, now>>

\* the contract answers balanceOf
BalanceAnswered ==
    \E n \in {Token_balanceOf(token, AccountOf(lookup.owner))} : BalanceResolved(n)

\* the contract answers the lookup for index j if it has the function
LookupAnswered(j) ==
    IF "tokenOfOwnerByIndex" \in Provided THEN LookupResolved(j)
    ELSE LookupRejected(j)

\* the deployer's session is connected
Init_Chain ==
    /\ Connected(Deployer)
    /\ switched = NoSwitch
    /\ ServiceInit

Next_Chain ==
    \/ \E sender \in Holders, to \in Holders \cup {ZeroAddress} : Mint(sender, to)
    \/ \E sender \in Holders, tokenId \in 0..MaxMinted : Revoke(sender, tokenId)
    \/ \E sender \in Holders, from \in Holders, to \in Holders,
          tokenId \in 0..MaxMinted :
          TransferFrom(sender, from, to, tokenId)
    \/ \E sender \in Holders, newOwner \in Holders :
          TransferOwnership(sender, newOwner)
    \/ \E tokenId \in ChainTokenIds : Idle /\ GetCredential(tokenId)
    \/ \E c \in BagToSet(calls) : CredentialAnswered(c)
    \/ \E tokenId \in ChainTokenIds : Idle /\ RevokeCredential(tokenId, TestText)
    \/ \E c \in BagToSet(calls) : RevokeAnswered(c)
    \/ \E c \in BagToSet(calls) : WaitResolved(c)
    \/ \E c \in BagToSet(calls) : WaitAgainResolved(c)
    \/ Idle /\ GetTokensByOwner(ValidAddress)
    \/ BalanceAnswered
    \/ \E j \in Ends(lookup.outstanding) : LookupAnswered(j)

Spec_Chain == Init_Chain /\ [][Next_Chain]_vars


(* ---------------------------------------------------------------------- *)
(* Properties of the contract and of the calls it answers                  *)
(* ---------------------------------------------------------------------- *)
\* C21: getCredential for a token that does not exist, which the contract
\* answers by reverting with 'Token does not exist', fails with a
\* ContractError whose message says 'not found' and not the chain's text
C21_MissingTokenNotFound ==
    [][\A c \in BagToSet(calls) :
          (/\ c.op = "getCredential" /\ c.pc = "read"
           /\ ~Token_exists(token, uint256(c.args[1]))
           /\ result'.op = "getCredential" /\ result'.phase = "answered")
          => /\ ~result'.ok
             /\ result'.error.kind = "ContractError"
             /\ includes(result'.error.message, "not found")
             /\ ~includes(result'.error.message, MsgNoToken)]_vars

\* C22: revokeCredential that the contract rejects because the sender is not
\* its owner fails with the ContractError 'Only the credential owner can
\* revoke it'
C22_NotOwnerMessage ==
    [][\A c \in BagToSet(calls) :
          (/\ c.op = "revokeCredential" /\ c.pc = "submit"
           /\ ~onlyOwner(token, currentAccount)
           /\ result'.op = "revokeCredential" /\ result'.phase = "rejected")
          => result'.error =
                ContractError("Only the credential owner can revoke it",
                              "revokeCredential", "none")]_vars

\* C23: a revoked credential stays revoked and keeps its owner whatever is
\* minted, revoked or transferred, and every transfer of it is rejected
C23_RevokedForGood ==
    [][\A tokenId \in 0..MaxMinted :
          isRevoked(token, tokenId)
          => /\ isRevoked(token', tokenId)
             /\ Token_ownerOf(token', tokenId) = Token_ownerOf(token, tokenId)
             /\ (/\ result'.op = "EduCredToken.transferFrom"
                 /\ result'.args[4] = tokenId
                 /\ result' # result)
                => (~result'.ok /\ result'.error.message = MsgRevoked)]_vars

\* C23: the holder of a revoked credential has tried to transfer it and still
\* holds it
C23_Witness ==
    /\ result.op = "EduCredToken.transferFrom"
    /\ ~result.ok
    /\ result.error.message = MsgRevoked
    /\ isRevoked(token, result.args[4])
    /\ Token_ownerOf(token, result.args[4]) = result.args[1]
    /\ result.args[2] = result.args[1]
    /\ result.args[3] # result.args[1]

\* C24: mintCredential and revokeCredential sent by another account than the
\* contract's owner revert and leave the storage as it was; the owner's mint
\* gives the token the next unused id, and the ids start at 0
C24_OwnerOnly ==
    [][/\ DOMAIN token.owners = 0..(token.counter - 1)
       /\ DOMAIN token.credentials = DOMAIN token.owners
       /\ (/\ result'.op \in {"EduCredToken.mintCredential",
                              "EduCredToken.revokeCredential"}
           /\ result' # result
           /\ result'.args[1] # token.owner)
          => (~result'.ok /\ token' = token)
       /\ (/\ result'.op = "revokeCredential"
           /\ result'.phase \in {"submitted", "rejected"}
           /\ currentAccount # token.owner)
          => (result'.phase = "rejected" /\ token' = token)
       /\ (/\ result'.op = "EduCredToken.mintCredential"
           /\ result' # result
           /\ result'.ok)
          => /\ result'.value.n = token.counter
             /\ ~Token_exists(token, token.counter)
             /\ token'.counter = token.counter + 1
             /\ Token_ownerOf(token', token.counter) = result'.args[2]
             /\ ~isRevoked(token', token.counter)
             /\ token = Deployed => result'.value.n = 0]_vars

\* C24: after the owner has minted, another account's mint has reverted
C24_Witness ==
    /\ result.op = "EduCredToken.mintCredential"
    /\ ~result.ok
    /\ result.error.message = MsgNotOwner
    /\ result.args[1] # token.owner
    /\ token.counter = 1
    /\ Token_exists(token, 0)

\* C30: getTokensByOwner for an account that holds tokens returns their ids
C30_HolderGetsTokens ==
    (/\ result.op = "getTokensByOwner" /\ result.phase = "resume"
     /\ result.settled
     /\ lookup.balance >= 1)
    => (result.ok /\ Len(result.value.tokens) = lookup.balance)

====
